---- MODULE Spec2Model ----
(***************************************************************************)
(* Model of the alert command responder: internal/alert/alert.go           *)
(* (HandleAlert: configuration resolution and dispatch) and                *)
(* internal/alert/commands.go (runLocalCommand, runSSHCommand,             *)
(* getPrivateKeyAuth, hostKeyCallback).                                    *)
(*                                                                         *)
(* One behaviour is one process handling one alert.  The main goroutine's  *)
(* position is pc, the SSH worker goroutine's position is wpc.  Outcomes   *)
(* of the environment (child process, files, network, remote host, timers) *)
(* are nondeterministic choices.  Durations are counted in milliseconds.   *)
(***************************************************************************)
EXTENDS Integers, Sequences, FiniteSets, TLC

VARIABLES
    cfg,                \* config.Config: the process-wide defaults
    annotations,        \* a.Alert.Annotations of the alert being handled
    Response,           \* a.Response (AlertResponse)
    pc,                 \* position of the goroutine running HandleAlert
    err,                \* HandleAlert's local variable err
    ret,                \* value HandleAlert returned to its caller
    CommandErrorsTotal, \* metrics.CommandErrorsTotal, by "type" label
    errorsAtStart,      \* CommandErrorsTotal when HandleAlert was entered
    localCalls,         \* number of calls of runLocalCommand
    sshCalls,           \* number of calls of runSSHCommand
    ctxExpired,         \* runLocalCommand: ctx.Err() == DeadlineExceeded
    cmdErr,             \* runLocalCommand: err returned by cmd.Run()
    localOutcome,       \* outcome of runLocalCommand
    localErr,           \* error runLocalCommand returned
    ranWithinDeadline,  \* cmd.Run() returned before the deadline elapsed
    auth,               \* runSSHCommand: the ssh.AuthMethod chosen
    dials,              \* number of calls of ssh.Dial
    hostKeyResult,      \* result of the HostKeyCallback during the handshake
    presentedKey,       \* the host key the server presented to the callback
    knownHostsFile,     \* the known-hosts file as knownhosts.New read it
    verifyLogged,       \* the callback wrote its "Verify SSH known hosts" line
    connection,         \* runSSHCommand: the *ssh.Client
    closeCount,         \* number of connection.Close() calls
    wpc,                \* position of the worker goroutine
    c1,                 \* runSSHCommand: buffer of the channel c1 (cap 1)
    c1closed,           \* runSSHCommand: c1 has been closed
    timeout,            \* runSSHCommand: the flag timeout
    timerFired,         \* the channel of time.After has its value
    timeoutDeclared,    \* the select took the time.After case
    sessionerror,       \* runSSHCommand: sessionerror
    commanderror,       \* runSSHCommand: commanderror
    workerFirst,        \* the worker finished before the timer fired
    sshOutcome,         \* outcome of runSSHCommand
    sshErr,             \* error runSSHCommand returned
    sshReturns,         \* number of returns of runSSHCommand
    panicked            \* the process died of a runtime panic

vars == <<cfg, annotations, Response, pc, err, ret, CommandErrorsTotal,
          errorsAtStart, localCalls, sshCalls, ctxExpired, cmdErr,
          localOutcome, localErr, auth, dials, hostKeyResult, presentedKey,
          knownHostsFile, verifyLogged, connection,
          closeCount, wpc, c1, c1closed, timeout, timerFired,
          timeoutDeclared, sessionerror, commanderror, sshOutcome, sshErr,
          sshReturns, panicked, ranWithinDeadline, workerFirst>>

localVars == <<ctxExpired, cmdErr, localOutcome, localErr, localCalls,
               ranWithinDeadline>>
workerVars == <<wpc, c1, c1closed, timeout, timerFired, timeoutDeclared,
                sessionerror, commanderror, workerFirst>>
hostKeyVars == <<presentedKey, knownHostsFile, verifyLogged>>
sshSetupVars == <<auth, dials, hostKeyResult, hostKeyVars>>
resolveVars == <<cfg, annotations, Response, errorsAtStart>>

----------------------------------------------------------------------------
(* Bounds *)

\* longest duration annotation drawn when only the resolver is exercised
MaxDurLen == 3
\* largest value of each error counter before the alert arrives
MaxPriorErrors == 1

----------------------------------------------------------------------------
(* alert.go: annotation keys *)

userAnnotation == "command_responder_user"
sshKeyAnnotation == "command_responder_ssh_key"
sshHostAnnotation == "command_responder_ssh_host"
sshCommandAnnotation == "command_responder_ssh_command"
sshCommandTimeout == "command_responder_ssh_command_timeout"
localCommandAnnotation == "command_responder_local_command"
localCommandTimeout == "command_responder_local_command_timeout"

AnnotationKeys == {userAnnotation, sshKeyAnnotation, sshHostAnnotation,
                   sshCommandAnnotation, sshCommandTimeout,
                   localCommandAnnotation, localCommandTimeout}

----------------------------------------------------------------------------
(* time.ParseDuration, on strings given as sequences of characters.        *)
(* The result is [ok, d]: ok is err == nil, d the duration in ms.          *)
(* The sign and fraction branches and the sub-millisecond units are left   *)
(* out: no input drawn below contains "+", "-", "." , "n", "u" or "µ".     *)

Digits == {"0", "1", "2", "3", "4", "5", "6", "7", "8", "9"}

DigitValue(ch) ==
    CASE ch = "0" -> 0 [] ch = "1" -> 1 [] ch = "2" -> 2 [] ch = "3" -> 3
      [] ch = "4" -> 4 [] ch = "5" -> 5 [] ch = "6" -> 6 [] ch = "7" -> 7
      [] ch = "8" -> 8 [] ch = "9" -> 9

\* unitMap of package time, in milliseconds
unitMap == [u \in {<<"m", "s">>, <<"s">>, <<"m">>, <<"h">>} |->
              CASE u = <<"m", "s">> -> 1
                [] u = <<"s">> -> 1000
                [] u = <<"m">> -> 60000
                [] u = <<"h">> -> 3600000]

\* leadingInt: the longest prefix of digits and its value
RECURSIVE leadingInt(_, _)
leadingInt(s, x) ==
    IF s # <<>> /\ Head(s) \in Digits
    THEN leadingInt(Tail(s), 10 * x + DigitValue(Head(s)))
    ELSE [x |-> x, rem |-> s]

\* the unit: everything up to the next "." or digit
RECURSIVE unitPrefix(_)
unitPrefix(s) ==
    IF s = <<>> \/ Head(s) = "." \/ Head(s) \in Digits
    THEN <<>>
    ELSE <<Head(s)>> \o unitPrefix(Tail(s))

\* the loop `for s != ""` of ParseDuration, d the sum so far
RECURSIVE parseLoop(_, _)
parseLoop(s, d) ==
    IF s = <<>> THEN [ok |-> TRUE, d |-> d]
    ELSE IF ~(Head(s) = "." \/ Head(s) \in Digits)
         THEN [ok |-> FALSE, d |-> 0]    \* invalid duration
    ELSE LET li == leadingInt(s, 0)
             u == unitPrefix(li.rem)
         IN IF Len(li.rem) = Len(s) THEN [ok |-> FALSE, d |-> 0]  \* no digits
            ELSE IF u = <<>> THEN [ok |-> FALSE, d |-> 0]   \* missing unit
            ELSE IF u \notin DOMAIN unitMap
                 THEN [ok |-> FALSE, d |-> 0]               \* unknown unit
            ELSE parseLoop(SubSeq(li.rem, Len(u) + 1, Len(li.rem)),
                           d + li.x * unitMap[u])

ParseDuration(s) ==
    IF s = <<"0">> THEN [ok |-> TRUE, d |-> 0]
    ELSE IF s = <<>> THEN [ok |-> FALSE, d |-> 0]
    ELSE parseLoop(s, 0)

----------------------------------------------------------------------------
(* Values *)

nil == "nil"

\* the zero value of AlertResponse
ZeroResponse ==
    [User |-> "", SSHKey |-> "", SSHPassword |-> "", SSHKnownHosts |-> "",
     SSHHostKeyAlgorithms |-> <<>>, SSHConnectionTimeout |-> 0,
     SSHCommandTimeout |-> 0, SSHHost |-> "", SSHCommand |-> "",
     LocalCommand |-> "", LocalCommandTimeout |-> 0]

\* the default configurations the process may have been started with
Configs ==
    [User : {"root"},
     SSHKey : {"", "/etc/id_rsa"},
     SSHPassword : {"", "secret"},
     SSHKnownHosts : {"", "/etc/known_hosts"},
     SSHHostKeyAlgorithms : {<<"ssh-ed25519">>},
     SSHConnectionTimeout : {5000},
     SSHCommandTimeout : {30000},
     LocalCommandTimeout : {10000}]

\* a key of the annotation map is absent ({}) or carries one value ({v})
Optional(V) == {{}} \cup {{v} : v \in V}

MkAnnotations(u, k, h, sc, st, lc, lt) ==
    LET o == [x \in AnnotationKeys |->
                CASE x = userAnnotation -> u
                  [] x = sshKeyAnnotation -> k
                  [] x = sshHostAnnotation -> h
                  [] x = sshCommandAnnotation -> sc
                  [] x = sshCommandTimeout -> st
                  [] x = localCommandAnnotation -> lc
                  [] x = localCommandTimeout -> lt]
    IN [x \in {y \in AnnotationKeys : o[y] # {}} |-> CHOOSE v \in o[x] : TRUE]

DurationAlphabet == {"1", "m", "s"}

\* every string over DurationAlphabet of length at most n
RECURSIVE StringsUpTo(_)
StringsUpTo(n) ==
    IF n = 0 THEN {<<>>}
    ELSE LET shorter == StringsUpTo(n - 1)
         IN shorter \cup
            {Append(s, ch) : s \in shorter, ch \in DurationAlphabet}

\* the host keys a server may present
HostKeys == {"keyA", "keyB"}

\* the known-hosts file before it is read, and what knownhosts.New may find
\* at a non-empty path: a file it cannot load, a file with the entry of the
\* host "ops", a file with entries of another host only
UnreadFile == [ok |-> FALSE, entries |-> {}]
KnownHostsFiles ==
    {[ok |-> FALSE, entries |-> {}],
     [ok |-> TRUE, entries |-> {<<"ops", "keyA">>}],
     [ok |-> TRUE, entries |-> {<<"other", "keyA">>, <<"other", "keyB">>}]}

\* what the alerts carry when the whole dispatch is exercised: user and host
\* given, an empty or a non-empty command, a well-formed or a malformed
\* duration
DispatchIds == {{"ops"}}
DispatchCommands == {"", "run"}
DispatchDurations == {<<"1", "s">>, <<"s", "1">>}

\* what the alerts carry when only the resolver is exercised
ResolveIds == Optional({"ops"})
ResolveCommands == {"run"}
ResolveDurations == StringsUpTo(MaxDurLen)

----------------------------------------------------------------------------
(* alert.go: HandleAlert, lines 65-105: configuration resolution *)

\* `if val, ok := a.Alert.Annotations[key]; ok { field = val }`
Override(ann, key, dflt) ==
    IF key \in DOMAIN ann THEN ann[key] ELSE dflt

\* the same for the two durations: assigned only if ParseDuration succeeds
OverrideDuration_zeroOnError(ann, key, dflt) ==
    IF key \in DOMAIN ann
    THEN LET p == ParseDuration(ann[key]) IN p.d
    ELSE dflt

OverrideDuration(ann, key, dflt) ==
    IF key \in DOMAIN ann
    THEN LET p == ParseDuration(ann[key]) IN IF p.ok THEN p.d ELSE dflt
    ELSE dflt

ResolveResponse_keyAnnotationSetsPassword(c, ann) ==
    [User |-> Override(ann, userAnnotation, c.User),
     SSHKey |-> Override(ann, sshKeyAnnotation, c.SSHKey),
     SSHPassword |-> Override(ann, sshKeyAnnotation, c.SSHPassword),
     SSHKnownHosts |-> c.SSHKnownHosts,
     SSHHostKeyAlgorithms |-> c.SSHHostKeyAlgorithms,
     SSHConnectionTimeout |-> ZeroResponse.SSHConnectionTimeout,
     SSHCommandTimeout |->
         OverrideDuration(ann, sshCommandTimeout, c.SSHCommandTimeout),
     SSHHost |-> Override(ann, sshHostAnnotation, ZeroResponse.SSHHost),
     SSHCommand |->
         Override(ann, sshCommandAnnotation, ZeroResponse.SSHCommand),
     LocalCommand |->
         Override(ann, localCommandAnnotation, ZeroResponse.LocalCommand),
     LocalCommandTimeout |->
         OverrideDuration(ann, localCommandTimeout, c.LocalCommandTimeout)]

ResolveResponse_userFromDefault(c, ann) ==
    [User |-> c.User,
     SSHKey |-> Override(ann, sshKeyAnnotation, c.SSHKey),
     SSHPassword |-> c.SSHPassword,
     SSHKnownHosts |-> c.SSHKnownHosts,
     SSHHostKeyAlgorithms |-> c.SSHHostKeyAlgorithms,
     SSHConnectionTimeout |-> ZeroResponse.SSHConnectionTimeout,
     SSHCommandTimeout |->
         OverrideDuration(ann, sshCommandTimeout, c.SSHCommandTimeout),
     SSHHost |-> Override(ann, sshHostAnnotation, ZeroResponse.SSHHost),
     SSHCommand |->
         Override(ann, sshCommandAnnotation, ZeroResponse.SSHCommand),
     LocalCommand |->
         Override(ann, localCommandAnnotation, ZeroResponse.LocalCommand),
     LocalCommandTimeout |->
         OverrideDuration(ann, localCommandTimeout, c.LocalCommandTimeout)]

\* The literal of lines 65-73 names seven fields; SSHConnectionTimeout,
\* SSHHost, SSHCommand and LocalCommand keep their zero values there.
ResolveResponse(c, ann) ==
    [User |-> Override(ann, userAnnotation, c.User),
     SSHKey |-> Override(ann, sshKeyAnnotation, c.SSHKey),
     SSHPassword |-> c.SSHPassword,
     SSHKnownHosts |-> c.SSHKnownHosts,
     SSHHostKeyAlgorithms |-> c.SSHHostKeyAlgorithms,
     SSHConnectionTimeout |-> ZeroResponse.SSHConnectionTimeout,
     SSHCommandTimeout |->
         OverrideDuration(ann, sshCommandTimeout, c.SSHCommandTimeout),
     SSHHost |-> Override(ann, sshHostAnnotation, ZeroResponse.SSHHost),
     SSHCommand |->
         Override(ann, sshCommandAnnotation, ZeroResponse.SSHCommand),
     LocalCommand |->
         Override(ann, localCommandAnnotation, ZeroResponse.LocalCommand),
     LocalCommandTimeout |->
         OverrideDuration(ann, localCommandTimeout, c.LocalCommandTimeout)]

----------------------------------------------------------------------------
(* Initial state: the process is up, no alert has arrived yet *)

Init ==
    /\ cfg \in Configs
    /\ annotations = <<>>
    /\ Response = ZeroResponse
    /\ pc = "idle"
    /\ err = nil
    /\ ret = "none"
    /\ CommandErrorsTotal \in [{"local", "ssh"} -> 0..MaxPriorErrors]
    /\ errorsAtStart = CommandErrorsTotal
    /\ localCalls = 0
    /\ sshCalls = 0
    /\ ctxExpired = FALSE
    /\ cmdErr = nil
    /\ localOutcome = "none"
    /\ localErr = "none"
    /\ ranWithinDeadline = FALSE
    /\ auth = "nil"
    /\ dials = 0
    /\ hostKeyResult = "none"
    /\ presentedKey = "none"
    /\ knownHostsFile = UnreadFile
    /\ verifyLogged = FALSE
    /\ connection = "nil"
    /\ closeCount = 0
    /\ wpc = "unborn"
    /\ c1 = <<>>
    /\ c1closed = FALSE
    /\ timeout = FALSE
    /\ timerFired = FALSE
    /\ timeoutDeclared = FALSE
    /\ sessionerror = nil
    /\ commanderror = nil
    /\ workerFirst = FALSE
    /\ sshOutcome = "none"
    /\ sshErr = "none"
    /\ sshReturns = 0
    /\ panicked = FALSE

\* metrics.CommandErrorsTotal.With(labels).Inc()
Inc(counter, type) == [counter EXCEPT ![type] = @ + 1]

----------------------------------------------------------------------------
(* alert.go: HandleAlert *)

\* lines 62-108: build the AlertResponse of one alert, whose annotations
\* are drawn from ids (user, host), cmds and durs
Resolve(ids, cmds, durs) ==
    /\ pc = "idle"
    /\ \E u \in ids, k \in Optional({"/alt_key"}), h \in ids,
          sc \in Optional(cmds), st \in Optional(durs),
          lc \in Optional(cmds), lt \in Optional(durs) :
         /\ annotations' = MkAnnotations(u, k, h, sc, st, lc, lt)
         /\ Response' = ResolveResponse(cfg, annotations')
    /\ err' = nil
    /\ pc' = "dispatch_local"
    /\ UNCHANGED <<cfg, ret, CommandErrorsTotal, errorsAtStart, localVars,
                   sshCalls, sshSetupVars, connection, closeCount, workerVars,
                   sshOutcome, sshErr, sshReturns, panicked>>

HandleAlertResolve ==
    Resolve(DispatchIds, DispatchCommands, DispatchDurations)

\* line 109
RunsLocal_always(r) == TRUE

RunsLocal(r) == r.LocalCommand # ""

\* line 117
RunsSSH(r) == r.SSHCommand # ""

\* lines 109-110 and commands.go 38-46: the call of runLocalCommand, up to
\* the start of cmd.Run()
DispatchLocal_notAwaited ==
    /\ pc = "dispatch_local"
    /\ ~panicked
    /\ IF RunsLocal(Response)
       THEN /\ localCalls' = localCalls + 1
            /\ pc' = "dispatch_ssh"
       ELSE /\ localCalls' = localCalls
            /\ pc' = "dispatch_ssh"
    /\ UNCHANGED <<ranWithinDeadline,
                   resolveVars, err, ret, CommandErrorsTotal, ctxExpired,
                   cmdErr, localOutcome, localErr, sshCalls, sshSetupVars,
                   connection, closeCount, workerVars, sshOutcome, sshErr,
                   sshReturns, panicked>>

DispatchLocal ==
    /\ pc = "dispatch_local"
    /\ ~panicked
    /\ IF RunsLocal(Response)
       THEN /\ localCalls' = localCalls + 1
            /\ pc' = "local_run"
       ELSE /\ localCalls' = localCalls
            /\ pc' = "dispatch_ssh"
    /\ UNCHANGED <<ranWithinDeadline,
                   resolveVars, err, ret, CommandErrorsTotal, ctxExpired,
                   cmdErr, localOutcome, localErr, sshCalls, sshSetupVars,
                   connection, closeCount, workerVars, sshOutcome, sshErr,
                   sshReturns, panicked>>

----------------------------------------------------------------------------
(* commands.go: runLocalCommand *)

\* the deadline of context.WithTimeout (line 42) elapses: while the child
\* runs, or after cmd.Run() returned and before ctx.Err() is read (line 48)
LocalDeadline ==
    /\ pc \in {"local_run", "local_check"}
    /\ ~panicked
    /\ ~ctxExpired
    /\ ctxExpired' = TRUE
    /\ UNCHANGED <<ranWithinDeadline,
                   resolveVars, pc, err, ret, CommandErrorsTotal, cmdErr,
                   localOutcome, localErr, localCalls, sshCalls, sshSetupVars,
                   connection, closeCount, workerVars, sshOutcome, sshErr,
                   sshReturns, panicked>>

\* line 47: cmd.Run() returns: the child exited cleanly, failed to launch or
\* exited non-zero, or (once the deadline has elapsed) was killed
LocalRunReturns ==
    /\ pc = "local_run"
    /\ ~panicked
    /\ \E e \in {nil, "exit status 1"} \cup
                (IF ctxExpired THEN {"signal: killed"} ELSE {}) :
         cmdErr' = e
    /\ ranWithinDeadline' = ~ctxExpired
    /\ pc' = "local_check"
    /\ UNCHANGED <<resolveVars, err, ret, CommandErrorsTotal, ctxExpired,
                   localOutcome, localErr, localCalls, sshCalls, sshSetupVars,
                   connection, closeCount, workerVars, sshOutcome, sshErr,
                   sshReturns, panicked>>

\* lines 48-58: the outcome of the local executor
LocalClassify(expired, e) ==
    IF expired THEN "Timeout"
    ELSE IF e # nil THEN "Failure"
    ELSE "Success"

\* lines 51, 55, 58: the error returned
LocalError(expired, e) ==
    IF expired THEN "Local command timed out"
    ELSE e

\* lines 50, 54: the increments of the counter {type: "local"}
LocalIncrements_timeoutUncounted(expired, e) ==
    IF ~expired /\ e # nil THEN 1 ELSE 0

LocalIncrements(expired, e) ==
    IF expired THEN 1
    ELSE IF e # nil THEN 1
    ELSE 0

\* lines 48-59, then alert.go 111-116
LocalReturns ==
    /\ pc = "local_check"
    /\ ~panicked
    /\ localOutcome' = LocalClassify(ctxExpired, cmdErr)
    /\ localErr' = LocalError(ctxExpired, cmdErr)
    /\ CommandErrorsTotal' =
         [CommandErrorsTotal EXCEPT
            !["local"] = @ + LocalIncrements(ctxExpired, cmdErr)]
    /\ err' = localErr'
    /\ pc' = "dispatch_ssh"
    /\ UNCHANGED <<ranWithinDeadline,
                   resolveVars, ret, ctxExpired, cmdErr, localCalls, sshCalls,
                   sshSetupVars, connection, closeCount, workerVars,
                   sshOutcome, sshErr, sshReturns, panicked>>

----------------------------------------------------------------------------
(* commands.go: runSSHCommand *)

\* line 92: the deferred connection.Close() runs on return iff it was
\* registered, that is iff the dial succeeded
ClosesOnReturn_closedTwice(conn) == IF conn = "open" THEN 2 ELSE 0

ClosesOnReturn(conn) == IF conn = "open" THEN 1 ELSE 0

\* runSSHCommand returns e (deferred calls run), then alert.go 120-126:
\* err = e, and HandleAlert returns err
SSHReturn(outcome, e) ==
    /\ sshOutcome' = outcome
    /\ sshErr' = e
    /\ sshReturns' = sshReturns + 1
    /\ closeCount' = closeCount + ClosesOnReturn(connection)
    /\ connection' = IF ClosesOnReturn(connection) > 0
                     THEN "closed" ELSE connection
    /\ err' = e
    /\ ret' = e
    /\ pc' = "returned"

\* alert.go 117-120: the call of runSSHCommand; or line 126 when SSHCommand
\* is empty
DispatchSSH_skipAfterError ==
    /\ pc = "dispatch_ssh"
    /\ ~panicked
    /\ IF RunsSSH(Response) /\ err = nil
       THEN /\ sshCalls' = sshCalls + 1
            /\ pc' = "ssh_auth"
            /\ ret' = ret
       ELSE /\ sshCalls' = sshCalls
            /\ ret' = err
            /\ pc' = "returned"
    /\ UNCHANGED <<resolveVars, err, CommandErrorsTotal, localVars,
                   sshSetupVars, connection, closeCount, workerVars,
                   sshOutcome, sshErr, sshReturns, panicked>>

DispatchSSH ==
    /\ pc = "dispatch_ssh"
    /\ ~panicked
    /\ IF RunsSSH(Response)
       THEN /\ sshCalls' = sshCalls + 1
            /\ pc' = "ssh_auth"
            /\ ret' = ret
       ELSE /\ sshCalls' = sshCalls
            /\ ret' = err
            /\ pc' = "returned"
    /\ UNCHANGED <<resolveVars, err, CommandErrorsTotal, localVars,
                   sshSetupVars, connection, closeCount, workerVars,
                   sshOutcome, sshErr, sshReturns, panicked>>

\* lines 70-78 with getPrivateKeyAuth (136-146): reading or parsing the key
\* file may fail; the failure returns at line 74
SSHAuth ==
    /\ pc = "ssh_auth"
    /\ ~panicked
    /\ IF Response.SSHKey # ""
       THEN \E keyOk \in BOOLEAN :
              IF keyOk
              THEN /\ auth' = "publickey"
                   /\ pc' = "ssh_dial"
                   /\ UNCHANGED <<err, ret, connection, closeCount,
                                  sshOutcome, sshErr, sshReturns>>
              ELSE /\ auth' = auth
                   /\ SSHReturn("Failure", "private key error")
       ELSE /\ auth' = IF Response.SSHPassword # "" THEN "password" ELSE "nil"
            /\ pc' = "ssh_dial"
            /\ UNCHANGED <<err, ret, connection, closeCount, sshOutcome,
                           sshErr, sshReturns>>
    /\ UNCHANGED <<resolveVars, CommandErrorsTotal, localVars, sshCalls,
                   dials, hostKeyResult, hostKeyVars, workerVars, panicked>>

\* line 84: the Timeout of the ssh.ClientConfig, which bounds the dial
DialTimeout(r) == r.SSHConnectionTimeout

\* line 86, first part: ssh.Dial opens the transport; an unreachable host
\* fails the dial (lines 87-91)
SSHDialConnect ==
    /\ pc = "ssh_dial"
    /\ ~panicked
    /\ dials' = dials + 1
    /\ \E reachable \in BOOLEAN :
         IF reachable
         THEN /\ pc' = "ssh_hostkey"
              /\ UNCHANGED <<err, ret, CommandErrorsTotal, connection,
                             closeCount, sshOutcome, sshErr, sshReturns>>
         ELSE /\ CommandErrorsTotal' = Inc(CommandErrorsTotal, "ssh")
              /\ SSHReturn("Failure", "dial error")
    /\ UNCHANGED <<resolveVars, localVars, sshCalls, auth, hostKeyResult,
                   hostKeyVars,
                   workerVars, panicked>>

\* line 164 with the callback of knownhosts.New: the key is accepted iff the
\* file holds an entry for the hostname with that key
knownhostsCheck(file, hostname, key) == <<hostname, key>> \in file.entries

\* lines 150-164: the result of the callback.  A non-empty path selects the
\* callback built from the file (an unreadable or malformed file is an
\* error), an empty path selects ssh.InsecureIgnoreHostKey()
HostKeyVerdict_neverVerifies(knownHosts, file, hostname, key) ==
    IF knownHosts # "" /\ ~file.ok THEN "knownhosts error" ELSE "accepted"

HostKeyVerdict(knownHosts, file, hostname, key) ==
    IF knownHosts # ""
    THEN IF ~file.ok THEN "knownhosts error"
         ELSE IF knownhostsCheck(file, hostname, key) THEN "accepted"
         ELSE "rejected"
    ELSE "accepted"

\* lines 152-154: the debug line is written inside `if knownHosts != ""`
LogsVerification(knownHosts) == knownHosts # ""

\* lines 148-166: the HostKeyCallback, called once during the handshake with
\* the key the server presents
hostKeyCallback ==
    /\ pc = "ssh_hostkey"
    /\ ~panicked
    /\ \E key \in HostKeys,
          file \in (IF Response.SSHKnownHosts # "" THEN KnownHostsFiles
                    ELSE {UnreadFile}) :
         /\ presentedKey' = key
         /\ knownHostsFile' = file
         /\ hostKeyResult' =
              HostKeyVerdict(Response.SSHKnownHosts, file, Response.SSHHost,
                             key)
    /\ verifyLogged' = LogsVerification(Response.SSHKnownHosts)
    /\ CommandErrorsTotal' =
         IF hostKeyResult' = "knownhosts error"
         THEN Inc(CommandErrorsTotal, "ssh") ELSE CommandErrorsTotal
    /\ pc' = "ssh_handshake"
    /\ UNCHANGED <<resolveVars, err, ret, localVars, sshCalls, auth, dials,
                   connection, closeCount, workerVars, sshOutcome, sshErr,
                   sshReturns, panicked>>

\* line 86, second part: the handshake fails if the callback returned an
\* error or the server refuses the authentication (lines 87-91); otherwise
\* the connection is up, lines 92-111 start the worker and reach the select
SSHDialFinish ==
    /\ pc = "ssh_handshake"
    /\ ~panicked
    /\ \E authOk \in BOOLEAN :
         IF hostKeyResult = "accepted" /\ authOk
         THEN /\ connection' = "open"
              /\ wpc' = "new_session"
              /\ pc' = "select"
              /\ UNCHANGED <<err, ret, CommandErrorsTotal, closeCount,
                             sshOutcome, sshErr, sshReturns>>
         ELSE /\ CommandErrorsTotal' = Inc(CommandErrorsTotal, "ssh")
              /\ SSHReturn("Failure", "dial error")
              /\ wpc' = wpc
    /\ UNCHANGED <<workerFirst,
                   resolveVars, localVars, sshCalls, sshSetupVars, c1,
                   c1closed, timeout, timerFired, timeoutDeclared,
                   sessionerror, commanderror, panicked>>

----------------------------------------------------------------------------
(* commands.go: runSSHCommand, lines 94-109: the worker goroutine.  It     *)
(* lives as long as the process does, also after runSSHCommand returned.   *)

\* lines 95-99
WorkerNewSession ==
    /\ wpc = "new_session"
    /\ ~panicked
    /\ \E e \in {nil, "session error"} :
         /\ sessionerror' = e
         /\ wpc' = IF e # nil THEN "done" ELSE "run"
    /\ workerFirst' = (wpc' = "done" /\ ~timerFired)
    /\ UNCHANGED <<resolveVars, pc, err, ret, CommandErrorsTotal, localVars,
                   sshCalls, sshSetupVars, connection, closeCount, c1,
                   c1closed, timeout, timerFired, timeoutDeclared,
                   commanderror, sshOutcome, sshErr, sshReturns, panicked>>

\* lines 100-105
WorkerRun ==
    /\ wpc = "run"
    /\ ~panicked
    /\ \E e \in {nil, "command error"} :
         /\ commanderror' = e
         /\ wpc' = IF e # nil THEN "done" ELSE "check"
    /\ workerFirst' = (wpc' = "done" /\ ~timerFired)
    /\ UNCHANGED <<resolveVars, pc, err, ret, CommandErrorsTotal, localVars,
                   sshCalls, sshSetupVars, connection, closeCount, c1,
                   c1closed, timeout, timerFired, timeoutDeclared,
                   sessionerror, sshOutcome, sshErr, sshReturns, panicked>>

\* line 106: the read of timeout is not synchronised with the write of line
\* 114, so once the flag is written the read yields the old or the new value
TimeoutReads(flag) == IF flag THEN {TRUE, FALSE} ELSE {FALSE}

WorkerCheckTimeout ==
    /\ wpc = "check"
    /\ ~panicked
    /\ \E seen \in TimeoutReads(timeout) :
         wpc' = IF seen THEN "done" ELSE "send"
    /\ workerFirst' = (wpc' = "done" /\ ~timerFired)
    /\ UNCHANGED <<resolveVars, pc, err, ret, CommandErrorsTotal, localVars,
                   sshCalls, sshSetupVars, connection, closeCount, c1,
                   c1closed, timeout, timerFired, timeoutDeclared,
                   sessionerror, commanderror, sshOutcome, sshErr, sshReturns,
                   panicked>>

\* line 107: c1 <- 1; a send on a closed channel panics, and a panic in a
\* goroutine ends the process
WorkerSend ==
    /\ wpc = "send"
    /\ ~panicked
    /\ IF c1closed
       THEN /\ panicked' = TRUE
            /\ wpc' = "panic"
            /\ c1' = c1
       ELSE /\ Len(c1) < 1
            /\ c1' = Append(c1, 1)
            /\ wpc' = "done"
            /\ panicked' = panicked
    /\ workerFirst' = (wpc' = "done" /\ ~timerFired)
    /\ UNCHANGED <<resolveVars, pc, err, ret, CommandErrorsTotal, localVars,
                   sshCalls, sshSetupVars, connection, closeCount, c1closed,
                   timeout, timerFired, timeoutDeclared, sessionerror,
                   commanderror, sshOutcome, sshErr, sshReturns>>

----------------------------------------------------------------------------
(* commands.go: runSSHCommand, lines 111-134: the select and what follows *)

\* line 113: the timer of time.After(r.SSHCommandTimeout) expires
TimerFires ==
    /\ pc = "select"
    /\ ~panicked
    /\ ~timerFired
    /\ timerFired' = TRUE
    /\ UNCHANGED <<workerFirst,
                   resolveVars, pc, err, ret, CommandErrorsTotal, localVars,
                   sshCalls, sshSetupVars, connection, closeCount, wpc, c1,
                   c1closed, timeout, timeoutDeclared, sessionerror,
                   commanderror, sshOutcome, sshErr, sshReturns, panicked>>

\* lines 122-133: the outcome once the completion signal was received
SSHClassify(se, ce) ==
    IF se # nil THEN "Failure"
    ELSE IF ce # nil THEN "Failure"
    ELSE "Success"

SSHError(se, ce) ==
    IF se # nil THEN se
    ELSE ce

\* line 112 taken, then lines 120-134
SelectCompletion ==
    /\ pc = "select"
    /\ ~panicked
    /\ c1 # <<>>
    /\ c1' = Tail(c1)
    /\ c1closed' = TRUE
    /\ CommandErrorsTotal' =
         IF SSHClassify(sessionerror, commanderror) = "Failure"
         THEN Inc(CommandErrorsTotal, "ssh") ELSE CommandErrorsTotal
    /\ SSHReturn(SSHClassify(sessionerror, commanderror),
                 SSHError(sessionerror, commanderror))
    /\ UNCHANGED <<workerFirst,
                   resolveVars, localVars, sshCalls, sshSetupVars, wpc,
                   timeout, timerFired, timeoutDeclared, sessionerror,
                   commanderror, panicked>>

\* line 113 taken, then line 114
SelectTimeout ==
    /\ pc = "select"
    /\ ~panicked
    /\ timerFired
    /\ timeoutDeclared' = TRUE
    /\ timeout' = TRUE
    /\ pc' = "timeout_close"
    /\ UNCHANGED <<workerFirst,
                   resolveVars, err, ret, CommandErrorsTotal, localVars,
                   sshCalls, sshSetupVars, connection, closeCount, wpc, c1,
                   c1closed, timerFired, sessionerror, commanderror,
                   sshOutcome, sshErr, sshReturns, panicked>>

\* line 115
TimeoutClose ==
    /\ pc = "timeout_close"
    /\ ~panicked
    /\ c1closed' = TRUE
    /\ pc' = "timeout_return"
    /\ UNCHANGED <<workerFirst,
                   resolveVars, err, ret, CommandErrorsTotal, localVars,
                   sshCalls, sshSetupVars, connection, closeCount, wpc, c1,
                   timeout, timerFired, timeoutDeclared, sessionerror,
                   commanderror, sshOutcome, sshErr, sshReturns, panicked>>

\* lines 116-118
TimeoutReturn ==
    /\ pc = "timeout_return"
    /\ ~panicked
    /\ CommandErrorsTotal' = Inc(CommandErrorsTotal, "ssh")
    /\ SSHReturn("Timeout", "Timeout executing SSH command")
    /\ UNCHANGED <<resolveVars, localVars, sshCalls, sshSetupVars,
                   workerVars, panicked>>

----------------------------------------------------------------------------
(* Specifications *)

Next ==
    \/ HandleAlertResolve
    \/ DispatchLocal
    \/ LocalDeadline
    \/ LocalRunReturns
    \/ LocalReturns
    \/ DispatchSSH
    \/ SSHAuth
    \/ SSHDialConnect
    \/ hostKeyCallback
    \/ SSHDialFinish
    \/ WorkerNewSession
    \/ WorkerRun
    \/ WorkerCheckTimeout
    \/ WorkerSend
    \/ TimerFires
    \/ SelectCompletion
    \/ SelectTimeout
    \/ TimeoutClose
    \/ TimeoutReturn

Spec == Init /\ [][Next]_vars

\* The goroutine of HandleAlert keeps running while it can, and the timer of
\* time.After expires; nothing is assumed of the worker, of the child process
\* or of the network.
FairSpec ==
    /\ Spec
    /\ WF_vars(TimerFires)
    /\ WF_vars(SelectCompletion \/ SelectTimeout)
    /\ WF_vars(TimeoutClose)
    /\ WF_vars(TimeoutReturn)

\* the resolver alone, on the wider set of alerts
ResolveOnly == Resolve(ResolveIds, ResolveCommands, ResolveDurations)

InitResolve ==
    /\ Init
    /\ cfg.SSHPassword # ""
    /\ cfg.SSHKnownHosts # ""
    /\ CommandErrorsTotal = [t \in {"local", "ssh"} |-> 0]

SpecResolve == InitResolve /\ [][ResolveOnly]_vars

----------------------------------------------------------------------------
(* Properties *)

Present(key) == key \in DOMAIN annotations

Malformed(key) == Present(key) /\ ~ParseDuration(annotations[key]).ok

\* HandleAlert has built a.Response
Resolved == pc # "idle"

\* HandleAlert is past line 109-116
AfterLocalDispatch == pc \notin {"idle", "dispatch_local"}

\* HandleAlert is past line 117
AfterSSHDispatch ==
    pc \notin {"idle", "dispatch_local", "local_run", "local_check",
               "dispatch_ssh"}

\* increments of the two counters since HandleAlert was entered
LocalErrorsCounted == CommandErrorsTotal["local"] - errorsAtStart["local"]
SSHErrorsCounted == CommandErrorsTotal["ssh"] - errorsAtStart["ssh"]

\* C1: once the configuration is resolved, each overridable field equals the
\* annotation's value if the alert carries the field's key (for the two
\* timeouts: the parsed duration, when the annotation parses) and the default
\* otherwise; ssh host, ssh command and local command have no default field,
\* their default is the empty string.
C1_AnnotationOverridesDefault ==
    Resolved =>
      /\ Response.User = IF Present(userAnnotation)
                         THEN annotations[userAnnotation] ELSE cfg.User
      /\ Response.SSHKey = IF Present(sshKeyAnnotation)
                           THEN annotations[sshKeyAnnotation] ELSE cfg.SSHKey
      /\ Response.SSHHost = IF Present(sshHostAnnotation)
                            THEN annotations[sshHostAnnotation] ELSE ""
      /\ Response.SSHCommand = IF Present(sshCommandAnnotation)
                               THEN annotations[sshCommandAnnotation] ELSE ""
      /\ Response.LocalCommand = IF Present(localCommandAnnotation)
                                 THEN annotations[localCommandAnnotation]
                                 ELSE ""
      /\ ~Present(sshCommandTimeout) =>
           Response.SSHCommandTimeout = cfg.SSHCommandTimeout
      /\ ~Present(localCommandTimeout) =>
           Response.LocalCommandTimeout = cfg.LocalCommandTimeout
      /\ Present(sshCommandTimeout) /\ ~Malformed(sshCommandTimeout) =>
           Response.SSHCommandTimeout =
             ParseDuration(annotations[sshCommandTimeout]).d
      /\ Present(localCommandTimeout) /\ ~Malformed(localCommandTimeout) =>
           Response.LocalCommandTimeout =
             ParseDuration(annotations[localCommandTimeout]).d
      /\ Present(sshCommandTimeout)
           /\ annotations[sshCommandTimeout] = <<"1", "s">> =>
           Response.SSHCommandTimeout = 1000
      /\ Present(localCommandTimeout)
           /\ annotations[localCommandTimeout] = <<"1", "1", "m">> =>
           Response.LocalCommandTimeout = 660000

C1_Witness ==
    /\ Resolved
    /\ Present(userAnnotation) /\ Response.User = "ops" /\ cfg.User = "root"
    /\ ~Present(sshKeyAnnotation) /\ Response.SSHKey = "/etc/id_rsa"
    /\ Present(sshCommandTimeout) /\ Response.SSHCommandTimeout = 1
    /\ ~Present(localCommandTimeout) /\ Response.LocalCommandTimeout = 10000

\* C2: a duration annotation that is present but does not parse leaves the
\* timeout at its default, and the dispatch still calls each executor whose
\* command is non-empty.
C2_MalformedDurationKeepsDefault ==
    /\ Resolved /\ Malformed(sshCommandTimeout) =>
         Response.SSHCommandTimeout = cfg.SSHCommandTimeout
    /\ Resolved /\ Malformed(localCommandTimeout) =>
         Response.LocalCommandTimeout = cfg.LocalCommandTimeout
    /\ (Malformed(sshCommandTimeout) \/ Malformed(localCommandTimeout)) =>
         /\ AfterLocalDispatch /\ Response.LocalCommand # "" => localCalls = 1
         /\ AfterSSHDispatch /\ Response.SSHCommand # "" => sshCalls = 1

C2_Witness ==
    /\ pc = "returned"
    /\ Malformed(sshCommandTimeout) /\ Malformed(localCommandTimeout)
    /\ Response.SSHCommandTimeout = 30000
    /\ Response.LocalCommandTimeout = 10000
    /\ localCalls = 1 /\ sshCalls = 1

\* C3: one HandleAlert call invokes the local executor once if LocalCommand
\* is non-empty and never otherwise, the SSH executor once if SSHCommand is
\* non-empty and never otherwise; with both empty no counter is incremented.
C3_EachExecutorAtMostOnce ==
    /\ localCalls <= 1 /\ sshCalls <= 1
    /\ ~AfterLocalDispatch => localCalls = 0
    /\ ~AfterSSHDispatch => sshCalls = 0
    /\ AfterLocalDispatch =>
         localCalls = IF Response.LocalCommand # "" THEN 1 ELSE 0
    /\ AfterSSHDispatch =>
         sshCalls = IF Response.SSHCommand # "" THEN 1 ELSE 0
    /\ Resolved /\ Response.LocalCommand = "" /\ Response.SSHCommand = "" =>
         /\ localCalls = 0 /\ sshCalls = 0
         /\ CommandErrorsTotal = errorsAtStart

C3_Witness ==
    /\ pc = "returned"
    /\ Present(localCommandAnnotation) /\ Response.LocalCommand = ""
    /\ Response.SSHCommand # ""
    /\ localCalls = 0 /\ sshCalls = 1

\* C4: HandleAlert returns the error of the latest executor that failed, and
\* nil only if no executor failed.
C4_ReturnsLastError ==
    pc = "returned" =>
      ret = IF sshErr \notin {"none", nil} THEN sshErr
            ELSE IF localErr \notin {"none", nil} THEN localErr
            ELSE nil

\* C5: with both commands non-empty the SSH executor is called whatever the
\* local executor returned.
C5_SSHAttemptedAfterAnyLocalOutcome ==
    /\ Response.LocalCommand # "" /\ Response.SSHCommand # ""
    /\ localOutcome \in {"Success", "Timeout", "Failure"}
    /\ pc # "dispatch_ssh"
    => sshCalls = 1

C5_Witness ==
    /\ localOutcome = "Timeout"
    /\ Response.SSHCommand # ""
    /\ sshCalls = 1
    /\ pc = "ssh_auth"

\* C6: one call of the SSH executor increments the counter {type: "ssh"} at
\* most once, and not at all when it returns success.
C6_SSHCounterAtMostOnce ==
    /\ SSHErrorsCounted <= 1
    /\ sshOutcome = "Success" => SSHErrorsCounted = 0

\* C7: a private key that cannot be read or parsed ends the SSH executor in
\* Failure at once, without a dial, and with the counter {type: "ssh"}
\* incremented by one.
C7_KeyFailureCounted ==
    sshErr = "private key error" =>
      /\ sshOutcome = "Failure"
      /\ dials = 0
      /\ SSHErrorsCounted = 1

\* C8: the local executor increments the counter {type: "local"} exactly once
\* if it ends in Timeout or Failure and not at all if it ends in Success.
C8_LocalCounterOncePerFailure ==
    /\ localOutcome = "none" => LocalErrorsCounted = 0
    /\ localOutcome \in {"Timeout", "Failure"} => LocalErrorsCounted = 1
    /\ localOutcome = "Success" => LocalErrorsCounted = 0

C8_Witness ==
    /\ localOutcome = "Timeout"
    /\ cmdErr = nil
    /\ LocalErrorsCounted = 1

\* C9: under every interleaving of worker and timer one call of the SSH
\* executor that reached the select delivers exactly one outcome; once the
\* timer case was taken that outcome is Timeout, never Success.
C9_ExactlyOneOutcome ==
    /\ sshReturns <= 1
    /\ connection # "nil" /\ (pc = "returned" \/ panicked) => sshReturns = 1
    /\ timeoutDeclared /\ sshReturns = 1 => sshOutcome = "Timeout"
    /\ timeoutDeclared => sshOutcome # "Success"

\* C10: a connection the dial established is closed exactly once by the time
\* the SSH executor returns, on every path; none is closed twice.
C10_ConnectionClosedOnce ==
    /\ closeCount <= 1
    /\ connection = "nil" => closeCount = 0
    /\ connection = "open" => closeCount = 0 /\ sshReturns = 0
    /\ sshReturns = 1 /\ connection # "nil" =>
         closeCount = 1 /\ connection = "closed"

C10_Witness ==
    /\ sshOutcome = "Timeout"
    /\ sessionerror # nil
    /\ connection = "closed"
    /\ closeCount = 1

\* C11: every field of the resolved AlertResponse comes from the default
\* configuration or from an annotation; SSHConnectionTimeout, which no
\* annotation overrides, equals the default connection timeout and is the
\* timeout the dial uses.
C11_ConnectionTimeoutFromDefault ==
    Resolved =>
      /\ Response.SSHConnectionTimeout = cfg.SSHConnectionTimeout
      /\ DialTimeout(Response) = cfg.SSHConnectionTimeout

\* C12: with an empty known-hosts path the callback accepts every key; with
\* a non-empty path and a loaded file it accepts a key iff the file has an
\* entry of that hostname with that key; a rejected key ends the SSH attempt
\* in a dial Failure without a connection.
C12_HostKeyPolicy ==
    hostKeyResult # "none" =>
      /\ Response.SSHKnownHosts = "" => hostKeyResult = "accepted"
      /\ Response.SSHKnownHosts # "" /\ knownHostsFile.ok =>
           (hostKeyResult = "accepted" <=>
              <<Response.SSHHost, presentedKey>> \in knownHostsFile.entries)
      /\ hostKeyResult = "rejected" =>
           /\ connection = "nil"
           /\ pc \in {"ssh_handshake", "returned"}
           /\ pc = "returned" =>
                sshOutcome = "Failure" /\ sshErr = "dial error"

C12_Witness ==
    /\ Response.SSHKnownHosts # ""
    /\ knownHostsFile.ok
    /\ knownHostsFile.entries = {<<"other", "keyA">>, <<"other", "keyB">>}
    /\ presentedKey = "keyA"
    /\ hostKeyResult = "rejected"
    /\ sshOutcome = "Failure"

\* the local executor has been called and has not returned
LocalRunning == localCalls > 0 /\ localOutcome = "none"

\* the SSH path has begun: the executor was called, or any of its steps (key
\* loading, dial, host-key check, session) has left a trace
SSHBegun ==
    \/ sshCalls > 0
    \/ auth # "nil" \/ dials > 0 \/ hostKeyResult # "none"
    \/ connection # "nil" \/ wpc # "unborn" \/ sshReturns > 0

\* C13: with both commands non-empty the local executor has returned before
\* the SSH executor begins; no step of the SSH path happens while the local
\* executor is running.
C13_LocalReturnsBeforeSSHBegins ==
    /\ ~(LocalRunning /\ SSHBegun)
    /\ SSHBegun /\ Response.LocalCommand # "" =>
         localCalls = 1 /\ localOutcome \in {"Success", "Timeout", "Failure"}
    /\ pc \in {"local_run", "local_check"} => ~SSHBegun

C13_Witness ==
    /\ Response.LocalCommand # ""
    /\ localOutcome = "Timeout"
    /\ wpc = "run"
    /\ pc = "select"

\* C20: every call of the host-key callback, with an empty or a non-empty
\* known-hosts path, writes its debug line (hostname, remote address, base64
\* key) before it accepts or rejects.
C20_VerifierAlwaysLogs ==
    hostKeyResult # "none" => verifyLogged

\* C14: after a successful dial, if the worker finishes before the timer
\* fires, a failed session creation gives Failure with the session error, a
\* failed command gives Failure with the command error, and anything else
\* gives Success; a worker that finished with an error before the timeout
\* never yields Timeout.
C14_WorkerFirstOutcome ==
    workerFirst /\ sshReturns = 1 =>
      /\ sessionerror # nil =>
           sshOutcome = "Failure" /\ sshErr = sessionerror
      /\ sessionerror = nil /\ commanderror # nil =>
           sshOutcome = "Failure" /\ sshErr = commanderror
      /\ sessionerror = nil /\ commanderror = nil => sshOutcome = "Success"
      /\ (sessionerror # nil \/ commanderror # nil) => sshOutcome # "Timeout"

\* C15: once the timer path has declared the timeout, the worker writes
\* neither sessionerror nor commanderror nor the channel c1.
C15_NoLateWrites ==
    [][timeoutDeclared =>
         /\ sessionerror' = sessionerror
         /\ commanderror' = commanderror
         /\ c1' = c1]_vars

\* C16: the worker never sends on c1 after c1 was closed, so no call of the
\* SSH executor ends the process with a panic.
C16_NoSendOnClosedChannel == ~panicked

\* C17: after a successful dial the call of the SSH executor eventually
\* returns, whatever the worker does, given that the timer fires: HandleAlert
\* eventually returns with Success, Failure or Timeout.
C17_EventuallyReturns ==
    (pc = "select") ~>
        (pc = "returned" /\ sshOutcome \in {"Success", "Failure", "Timeout"})

\* C18: the local executor ends in Timeout if the deadline elapses before
\* the child exits, in Failure with the child's error if the child fails
\* before the deadline, and in Success whenever the child exits cleanly
\* before the deadline, whatever happens before the deadline is looked at.
C18_LocalClassification ==
    localOutcome # "none" =>
      /\ ~ranWithinDeadline => localOutcome = "Timeout"
      /\ ranWithinDeadline /\ cmdErr # nil =>
           localOutcome = "Failure" /\ localErr = cmdErr
      /\ ranWithinDeadline /\ cmdErr = nil => localOutcome = "Success"

\* C19: whatever annotations the alert carries, SSHPassword, SSHKnownHosts
\* and SSHHostKeyAlgorithms of the resolved AlertResponse equal the defaults.
C19_NotOverridable ==
    Resolved =>
      /\ Response.SSHPassword = cfg.SSHPassword
      /\ Response.SSHKnownHosts = cfg.SSHKnownHosts
      /\ Response.SSHHostKeyAlgorithms = cfg.SSHHostKeyAlgorithms

C19_Witness ==
    /\ Resolved
    /\ DOMAIN annotations = AnnotationKeys
    /\ Response.SSHKey = "/alt_key"
    /\ Response.SSHPassword = "secret"
    /\ Response.SSHKnownHosts = "/etc/known_hosts"
    /\ Response.SSHHostKeyAlgorithms = <<"ssh-ed25519">>

====
